---- MODULE Spec2Model ----
(***************************************************************************)
(* Model of the back64up tool: the FileSystem snapshot and its views       *)
(* (filesystem.ts), the snapshot builder Base64Filesystem, and the         *)
(* `backup` command handler (index.ts).                                    *)
(*                                                                         *)
(* Text is modelled as a sequence of one-character strings, so that the    *)
(* escaping done by the serializers is computed, not assumed.              *)
(***************************************************************************)
EXTENDS Integers, Sequences, FiniteSets, TLC

\* ------------------------------------------------------------------ bounds
MaxPathLen == 1      \* longest path handed to FileSystem()
MaxEntries == 2      \* longest FileEntry[] handed to FileSystem()
MaxCalls == 2        \* view calls made on one snapshot
MaxMatched == 2      \* most paths one glob expansion returns
MaxFilters == 2      \* most filters handed to Base64Filesystem

\* ------------------------------------------------------------- text values
PathChars == {"a", ",", "\\"}
Contents == {<<"Q">>, <<"R">>}

RECURSIVE SeqsUpTo(_, _)
SeqsUpTo(S, n) ==
  IF n = 0 THEN {<<>>}
  ELSE LET shorter == SeqsUpTo(S, n - 1)
       IN shorter \cup {Append(s, x) : s \in shorter, x \in S}

Paths == SeqsUpTo(PathChars, MaxPathLen) \ {<<>>}
Entries == {<<p, c>> : p \in Paths, c \in Contents}

\* ------------------------------------------------ filesystem.ts: the views
\* String.prototype.replace(/,/g, "\\,")
RECURSIVE EscapeCommas(_)
EscapeCommas(s) ==
  IF Len(s) = 0 THEN <<>>
  ELSE (IF Head(s) = "," THEN <<"\\", ",">> ELSE <<Head(s)>>)
         \o EscapeCommas(Tail(s))

\* Array.prototype.join on an array of strings
RECURSIVE Join(_, _)
Join(parts, sep) ==
  IF Len(parts) = 0 THEN <<>>
  ELSE IF Len(parts) = 1 THEN parts[1]
  ELSE parts[1] \o sep \o Join(Tail(parts), sep)

CSVHeader ==
  <<"f", "i", "l", "e", "p", "a", "t", "h", ",", "c", "o", "n", "t", "e", "n", "t">>
TSVHeader ==
  <<"f", "i", "l", "e", "p", "a", "t", "h", "\t", "c", "o", "n", "t", "e", "n", "t">>

\* asCSV: the map callback assigns entry[0], so the entries of the array that
\* was passed in are changed.  `files` is the array after the call, `result`
\* the returned text.
asCSVNoEscape(filesystem) ==
  [files  |-> filesystem,
   result |-> Join(<<CSVHeader>> \o
                   [i \in 1..Len(filesystem) |-> Join(filesystem[i], <<",">>)],
                   <<"\n">>)]

asCSV(filesystem) ==
  LET escaped == [i \in 1..Len(filesystem) |->
                    <<EscapeCommas(filesystem[i][1]), filesystem[i][2]>>]
  IN [files  |-> escaped,
      result |-> Join(<<CSVHeader>> \o
                      [i \in 1..Len(escaped) |-> Join(escaped[i], <<",">>)],
                      <<"\n">>)]

asTSV(filesystem) ==
  [files  |-> filesystem,
   result |-> Join(<<TSVHeader>> \o
                   [i \in 1..Len(filesystem) |-> Join(filesystem[i], <<"\t">>)],
                   <<"\n">>)]

\* JSON.stringify of a string: quotes and backslashes are escaped
RECURSIVE JSONEscape(_)
JSONEscape(s) ==
  IF Len(s) = 0 THEN <<>>
  ELSE (IF Head(s) \in {"\"", "\\"} THEN <<"\\", Head(s)>> ELSE <<Head(s)>>)
         \o JSONEscape(Tail(s))

JSONString(s) == <<"\"">> \o JSONEscape(s) \o <<"\"">>

\* JSON.stringify of an array of strings
JSONArrayOfStrings(a) ==
  <<"[">> \o Join([i \in 1..Len(a) |-> JSONString(a[i])], <<",">>) \o <<"]">>

\* FileSystem().asJSON: JSON.stringify(files), files being the FileEntry[]
asJSON(files) ==
  [files  |-> files,
   result |-> <<"[">> \o
              Join([i \in 1..Len(files) |-> JSONArrayOfStrings(files[i])], <<",">>)
              \o <<"]">>]

\* FileSystem().toMap: files.reduce(..., {}) with reduction[filepath] = content
RECURSIVE toMapFirstWins(_, _)
toMapFirstWins(files, reduction) ==
  IF Len(files) = 0 THEN reduction
  ELSE toMapFirstWins(Tail(files),
         [k \in DOMAIN reduction \cup {files[1][1]} |->
            IF k \in DOMAIN reduction THEN reduction[k] ELSE files[1][2]])

RECURSIVE toMapReduce(_, _)
toMapReduce(files, reduction) ==
  IF Len(files) = 0 THEN reduction
  ELSE toMapReduce(Tail(files),
         [k \in DOMAIN reduction \cup {files[1][1]} |->
            IF k = files[1][1] THEN files[1][2] ELSE reduction[k]])

EmptyObject == [k \in {} |-> <<>>]

toMap(files) == [files |-> files, result |-> toMapReduce(files, EmptyObject)]

\* ------------------------------------------- the backup command (index.ts)
supportedFormats == {"json", "csv", "tsv"}
formatChoices == {"json", "csv", "tsv"}
Formats == supportedFormats \cup {"xml"}

isSupportedType(fmt) == Cardinality({s \in supportedFormats : fmt = s}) = 1

\* the properties of the object FileSystem() returns
FileSystemKeys == {"files", "asJSON", "asCSV", "asTSV", "toMap"}

\* the files of the working directory, and what a glob pattern can expand to
DiskPaths == {p \in Paths : Len(p) = 1}
GlobResults ==
  {s \in SeqsUpTo(DiskPaths, MaxMatched) :
     \A i, j \in 1..Len(s) : i # j => s[i] # s[j]}

\* a pure predicate on paths is the set of paths it accepts
Predicates == {DiskPaths \ {p} : p \in DiskPaths}
FilterLists == SeqsUpTo(Predicates, MaxFilters)

Keep(values, filter) ==
  LET Accepts(v) == v \in filter IN SelectSeq(values, Accepts)

\* filters.reduce((values, filter) => values.filter(filter), fileGlob)
ApplyFiltersDroppingAccumulator(fl, values) ==
  IF Len(fl) = 0 THEN values ELSE Keep(values, fl[Len(fl)])

RECURSIVE ApplyFilters(_, _)
ApplyFilters(fl, values) ==
  IF Len(fl) = 0 THEN values
  ELSE ApplyFilters(Tail(fl), Keep(values, Head(fl)))

\* errors and other thrown values
ErrorValue(name, msg, file) ==
  [isError |-> TRUE, name |-> name, msg |-> msg, file |-> file]
NoError == [isError |-> FALSE, name |-> "none", msg |-> "", file |-> 0]
Undefined == [isError |-> FALSE, name |-> "undefined", msg |-> "", file |-> 0]
GlobError == ErrorValue("GlobError", "glob", 0)
ReadError(i) == ErrorValue("ReadError", "read", i)
WriteError == ErrorValue("WriteError", "write", 0)
UsageError == ErrorValue("UsageError", "format", 0)
ReferenceError == ErrorValue("ReferenceError", "fileGlob", 0)

\* value instanceof Error ? value : Error(value)
wrapError(value) ==
  IF value.isError THEN value ELSE ErrorValue("Error", value.name, 0)

\* What the glob catch callback throws: wrapError(fileGlob), fileGlob being
\* the `let` the awaited expression initialises.  Kept as `let` the read is in
\* the temporal dead zone and throws a ReferenceError; compiled to `var` it
\* reads undefined.
GlobCatchThrows == {ReferenceError, wrapError(Undefined)}

\* the promises of filtered.map(async filepath => ...)
PendingRead(filepath) ==
  [status |-> "pending", filepath |-> filepath, contents |-> <<>>,
   reason |-> NoError, at |-> 0]

NumSettled(reads) ==
  Cardinality({i \in 1..Len(reads) : reads[i].status # "pending"})

Values(reads) ==
  [i \in 1..Len(reads) |->
     [contents |-> reads[i].contents, filepath |-> reads[i].filepath]]

FirstRejected(reads) ==
  CHOOSE i \in 1..Len(reads) :
    /\ reads[i].status = "rejected"
    /\ \A j \in 1..Len(reads) :
         reads[j].status = "rejected" => reads[i].at <= reads[j].at

Outcome(status, values, reason) ==
  [status |-> status, values |-> values, reason |-> reason]

\* Promise.all(fileReads)
PromiseAllInCompletionOrder(reads) ==
  IF \E i \in 1..Len(reads) : reads[i].status = "rejected"
  THEN Outcome("rejected", <<>>, reads[FirstRejected(reads)].reason)
  ELSE IF \A i \in 1..Len(reads) : reads[i].status = "fulfilled"
  THEN LET nth(k) == CHOOSE i \in 1..Len(reads) : reads[i].at = k
       IN Outcome("fulfilled",
                  [k \in 1..Len(reads) |->
                     [contents |-> reads[nth(k)].contents,
                      filepath |-> reads[nth(k)].filepath]],
                  NoError)
  ELSE Outcome("pending", <<>>, NoError)

PromiseAllDroppingRejected(reads) ==
  IF \E i \in 1..Len(reads) : reads[i].status = "pending"
  THEN Outcome("pending", <<>>, NoError)
  ELSE LET IsFulfilled(r) == r.status = "fulfilled"
       IN Outcome("fulfilled", Values(SelectSeq(reads, IsFulfilled)), NoError)

PromiseAllNotWaiting(reads) ==
  IF \E i \in 1..Len(reads) : reads[i].status = "rejected"
  THEN Outcome("rejected", <<>>, reads[FirstRejected(reads)].reason)
  ELSE IF Len(reads) = 0 \/ \E i \in 1..Len(reads) : reads[i].status = "fulfilled"
  THEN Outcome("fulfilled", Values(reads), NoError)
  ELSE Outcome("pending", <<>>, NoError)

PromiseAll(reads) ==
  IF \E i \in 1..Len(reads) : reads[i].status = "rejected"
  THEN Outcome("rejected", <<>>, reads[FirstRejected(reads)].reason)
  ELSE IF \A i \in 1..Len(reads) : reads[i].status = "fulfilled"
  THEN Outcome("fulfilled", Values(reads), NoError)
  ELSE Outcome("pending", <<>>, NoError)

\* ------------------------------------------------------------------- state
VARIABLES
  pc,          \* where the process is: "api" (a caller holding a snapshot),
               \* or the backup command: "start", "handler", "glob", "reads",
               \* "write", "exited"
  format,      \* argv.format
  filters,     \* the filters handed to Base64Filesystem
  outFile0,    \* the output file before the run
  outFile,     \* the output file
  fileGlob,    \* the paths glob() returned
  filtered,    \* fileGlob after the filters
  fileReads,   \* one read per filtered path: status, filepath, contents, at
  built,       \* the FileEntry[] as handed to FileSystem()
  files,       \* FileSystem().files, the same array, as it is now
  foundCount,  \* the N of `Found and encoded N file(s)`
  content,     \* the text the handler formatted
  exitCode,    \* the exit status, -1 while the process runs
  err,         \* the error the handler's catch received
  cause,       \* the error the failing step raised
  ncalls,      \* view calls made so far by the caller
  lastCall     \* the last view call: view, files before it, result

vars == <<pc, format, filters, outFile0, outFile, fileGlob, filtered, fileReads,
          built, files, foundCount, content, exitCode, err, cause,
          ncalls, lastCall>>

cliVars == <<format, filters, outFile0, outFile, fileGlob, filtered, fileReads,
             foundCount, content, exitCode, err, cause>>
apiVars == <<ncalls, lastCall>>

Views == {"toMap", "asJSON", "asCSV", "asTSV"}

NoFile == [exists |-> FALSE, data |-> <<>>]
OldFile == [exists |-> TRUE, data |-> <<"o", "l", "d">>]
NoCall == [view |-> "none", before |-> <<>>, result |-> <<>>]

\* ------------------------------------- a caller holding a FileSystem object
\* FileSystem(files): the object keeps the array it was given
InitFS ==
  /\ pc = "api"
  /\ files \in SeqsUpTo(Entries, MaxEntries)
  /\ built = files
  /\ ncalls = 0
  /\ lastCall = NoCall
  /\ format = "json" /\ filters = <<>>
  /\ outFile0 = NoFile /\ outFile = NoFile
  /\ fileGlob = <<>> /\ filtered = <<>> /\ fileReads = <<>>
  /\ foundCount = -1 /\ content = <<>> /\ exitCode = -1
  /\ err = NoError /\ cause = NoError

\* one call of a view: `r` is what the view returns and leaves behind
Call(view, r) ==
  /\ pc = "api"
  /\ ncalls < MaxCalls
  /\ ncalls' = ncalls + 1
  /\ files' = r.files
  /\ lastCall' = [view |-> view, before |-> files, result |-> r.result]
  /\ UNCHANGED <<pc, built>>
  /\ UNCHANGED cliVars

CallToMap == Call("toMap", toMap(files))
CallAsJSON == Call("asJSON", asJSON(files))
CallAsCSV == Call("asCSV", asCSV(files))
CallAsTSV == Call("asTSV", asTSV(files))

NextFS == CallToMap \/ CallAsJSON \/ CallAsCSV \/ CallAsTSV

SpecFS == InitFS /\ [][NextFS]_vars

\* ------------------------------------------------------ the backup command
\* The handler calls Base64Filesystem(pattern, []); Base64Filesystem is
\* exported and takes any list of filters, so the list is an input here.
Init ==
  /\ pc = "start"
  /\ format \in Formats
  /\ filters \in FilterLists
  /\ outFile0 \in {NoFile, OldFile}
  /\ outFile = outFile0
  /\ fileGlob = <<>> /\ filtered = <<>> /\ fileReads = <<>>
  /\ built = <<>> /\ files = <<>>
  /\ foundCount = -1 /\ content = <<>> /\ exitCode = -1
  /\ err = NoError /\ cause = NoError
  /\ ncalls = 0
  /\ lastCall = NoCall

\* the handler's catch: console.error(err); process.exit(1)
CatchAndLogOnly(e, c) ==
  /\ pc' = "exited"
  /\ exitCode' = 0
  /\ err' = e
  /\ cause' = c

CatchAndExit(e, c) ==
  /\ pc' = "exited"
  /\ exitCode' = 1
  /\ err' = e
  /\ cause' = c

\* yargs checks --format against `choices` before it runs the handler, and
\* exits with status 1 on a value that is not one of them
YargsParse ==
  /\ pc = "start"
  /\ IF format \in formatChoices
     THEN pc' = "handler" /\ UNCHANGED <<exitCode, err, cause>>
     ELSE CatchAndExit(UsageError, UsageError)
  /\ UNCHANGED <<format, filters, outFile0, outFile, fileGlob, filtered,
                 fileReads, built, files, foundCount, content>>
  /\ UNCHANGED apiVars

\* the handler up to its first await: the assertions, the messages, and the
\* call of Base64Filesystem up to `await glob(globPattern)`.  A failed
\* assertion is thrown before the try block is entered.
HandlerStart ==
  /\ pc = "handler"
  /\ IF isSupportedType(format)
     THEN pc' = "glob" /\ UNCHANGED <<exitCode, err, cause>>
     ELSE CatchAndExit(UsageError, UsageError)
  /\ UNCHANGED <<format, filters, outFile0, outFile, fileGlob, filtered,
                 fileReads, built, files, foundCount, content>>
  /\ UNCHANGED apiVars

\* The driver once Promise.all(fileReads) has settled.  Fulfilled:
\* Base64Filesystem returns FileSystem(files.map(...)), the handler reports the
\* count, formats the content and calls writeFile (filesystem is never
\* undefined, so the check of line 103 never throws).  Rejected: the error
\* goes through the two catch blocks of Base64Filesystem into the handler's.
Resume(reads) ==
  LET all == PromiseAll(reads)
  IN IF all.status = "fulfilled"
     THEN LET entries == [i \in 1..Len(all.values) |->
                            <<all.values[i].filepath, all.values[i].contents>>]
              view == IF format = "json" THEN asJSON(entries)
                      ELSE IF format = "csv" THEN asCSV(entries)
                      ELSE IF format = "tsv" THEN asTSV(entries)
                      ELSE [files |-> entries, result |-> <<>>]
          IN /\ built' = entries
             /\ files' = view.files
             /\ foundCount' = Cardinality(FileSystemKeys)
             /\ content' = view.result
             /\ pc' = "write"
             /\ UNCHANGED <<exitCode, err, cause>>
     ELSE IF all.status = "rejected"
     THEN /\ CatchAndExit(wrapError(wrapError(all.reason)), all.reason)
          /\ UNCHANGED <<built, files, foundCount, content>>
     ELSE /\ pc' = "reads"
          /\ UNCHANGED <<built, files, foundCount, content, exitCode, err, cause>>

\* glob() resolves: the filters are applied and one read per path is issued
GlobResolve ==
  /\ pc = "glob"
  /\ \E paths \in GlobResults :
       LET kept == ApplyFilters(filters, paths)
           reads == [i \in 1..Len(kept) |-> PendingRead(kept[i])]
       IN /\ fileGlob' = paths
          /\ filtered' = kept
          /\ fileReads' = reads
          /\ Resume(reads)
  /\ UNCHANGED <<format, filters, outFile0, outFile>>
  /\ UNCHANGED apiVars

\* glob() rejects: the catch callback throws, the outer catch wraps, the
\* handler's catch exits
GlobReject ==
  /\ pc = "glob"
  /\ \E thrown \in GlobCatchThrows : CatchAndExit(wrapError(thrown), GlobError)
  /\ UNCHANGED <<format, filters, outFile0, outFile, fileGlob, filtered,
                 fileReads, built, files, foundCount, content>>
  /\ UNCHANGED apiVars

\* readFile of one path completes with the file's content at that moment
ReadFulfil ==
  /\ pc = "reads"
  /\ \E i \in 1..Len(fileReads), c \in Contents :
       /\ fileReads[i].status = "pending"
       /\ LET reads == [fileReads EXCEPT
                          ![i] = [@ EXCEPT !.status = "fulfilled",
                                           !.contents = c,
                                           !.at = NumSettled(fileReads) + 1]]
          IN fileReads' = reads /\ Resume(reads)
  /\ UNCHANGED <<format, filters, outFile0, outFile, fileGlob, filtered>>
  /\ UNCHANGED apiVars

\* readFile of one path fails (the file is gone, unreadable, a directory)
ReadReject ==
  /\ pc = "reads"
  /\ \E i \in 1..Len(fileReads) :
       /\ fileReads[i].status = "pending"
       /\ LET reads == [fileReads EXCEPT
                          ![i] = [@ EXCEPT !.status = "rejected",
                                           !.reason = ReadError(i),
                                           !.at = NumSettled(fileReads) + 1]]
          IN fileReads' = reads /\ Resume(reads)
  /\ UNCHANGED <<format, filters, outFile0, outFile, fileGlob, filtered>>
  /\ UNCHANGED apiVars

\* writeFile(absOut, content, "utf8") resolves; the handler returns and the
\* process ends with status 0
WriteResolve ==
  /\ pc = "write"
  /\ outFile' = [exists |-> TRUE, data |-> content]
  /\ pc' = "exited"
  /\ exitCode' = 0
  /\ UNCHANGED <<format, filters, outFile0, fileGlob, filtered, fileReads,
                 built, files, foundCount, content, err, cause>>
  /\ UNCHANGED apiVars

\* writeFile rejects: its catch callback wraps, the handler's catch exits.
\* fs.writeFile opens the path with flag "w" (create, truncate) and then writes:
\* a failure to open leaves the path as it was, a failure while writing leaves
\* a file holding a proper prefix of the content.
WriteReject ==
  /\ pc = "write"
  /\ \/ outFile' = outFile
     \/ \E k \in 0..(Len(content) - 1) :
          outFile' = [exists |-> TRUE, data |-> SubSeq(content, 1, k)]
  /\ CatchAndExit(wrapError(WriteError), WriteError)
  /\ UNCHANGED <<format, filters, outFile0, fileGlob, filtered,
                 fileReads, built, files, foundCount, content>>
  /\ UNCHANGED apiVars

Next ==
  \/ YargsParse
  \/ HandlerStart
  \/ GlobResolve
  \/ GlobReject
  \/ ReadFulfil
  \/ ReadReject
  \/ WriteResolve
  \/ WriteReject

Spec == Init /\ [][Next]_vars

\* ----------------------------------------------- readers of the written text
\* String.prototype.split(sep) for a one-character separator
RECURSIVE SplitFrom(_, _, _, _)
SplitFrom(text, sep, i, cur) ==
  IF i > Len(text) THEN <<cur>>
  ELSE IF text[i] = sep THEN <<cur>> \o SplitFrom(text, sep, i + 1, <<>>)
  ELSE SplitFrom(text, sep, i + 1, Append(cur, text[i]))

Split(text, sep) == SplitFrom(text, sep, 1, <<>>)

\* the path with every comma replaced by backslash-comma
WithCommasEscaped(path) ==
  Join([i \in 1..Len(path) |->
          IF path[i] = "," THEN <<"\\", ",">> ELSE <<path[i]>>], <<>>)

\* backslash-comma replaced by comma, left to right
RECURSIVE Unescape(_)
Unescape(s) ==
  IF Len(s) = 0 THEN <<>>
  ELSE IF Len(s) >= 2 /\ s[1] = "\\" /\ s[2] = ","
       THEN <<",">> \o Unescape(SubSeq(s, 3, Len(s)))
       ELSE <<s[1]>> \o Unescape(Tail(s))

\* a CSV body line split at its first comma not preceded by a backslash
DecodeCSVLine(line) ==
  LET cuts == {i \in 1..Len(line) :
                 line[i] = "," /\ (i = 1 \/ line[i - 1] # "\\")}
  IN IF cuts = {} THEN [ok |-> FALSE, path |-> <<>>, content |-> <<>>]
     ELSE LET i == CHOOSE c \in cuts : \A d \in cuts : c <= d
          IN [ok      |-> TRUE,
              path    |-> Unescape(SubSeq(line, 1, i - 1)),
              content |-> SubSeq(line, i + 1, Len(line))]

\* JSON.parse for texts without white space made of strings, arrays, objects
RECURSIVE ScanString(_, _, _)
ScanString(t, i, acc) ==
  IF t[i] = "\"" THEN [val |-> acc, next |-> i + 1]
  ELSE IF t[i] = "\\" THEN ScanString(t, i + 2, Append(acc, t[i + 1]))
  ELSE ScanString(t, i + 1, Append(acc, t[i]))

RECURSIVE ParseValue(_, _)
RECURSIVE ParseItems(_, _, _)
RECURSIVE ParseMembers(_, _, _)
ParseValue(t, i) ==
  IF t[i] = "\""
  THEN LET s == ScanString(t, i + 1, <<>>)
       IN [kind |-> "string", val |-> s.val, next |-> s.next]
  ELSE IF t[i] = "["
  THEN IF t[i + 1] = "]" THEN [kind |-> "array", val |-> <<>>, next |-> i + 2]
       ELSE ParseItems(t, i + 1, <<>>)
  ELSE IF t[i + 1] = "}" THEN [kind |-> "object", val |-> EmptyObject, next |-> i + 2]
       ELSE ParseMembers(t, i + 1, EmptyObject)

ParseItems(t, i, acc) ==
  LET v == ParseValue(t, i)
  IN IF t[v.next] = "," THEN ParseItems(t, v.next + 1, Append(acc, v))
     ELSE [kind |-> "array", val |-> Append(acc, v), next |-> v.next + 1]

ParseMembers(t, i, acc) ==
  LET k == ScanString(t, i + 1, <<>>)
      v == ParseValue(t, k.next + 1)
      obj == [x \in DOMAIN acc \cup {k.val} |-> IF x = k.val THEN v ELSE acc[x]]
  IN IF t[v.next] = "," THEN ParseMembers(t, v.next + 1, obj)
     ELSE [kind |-> "object", val |-> obj, next |-> v.next + 1]

JSONParse(text) == ParseValue(text, 1)

\* a parsed object whose values are strings, as a mapping from key to string
StringsOf(obj) == [k \in DOMAIN obj.val |-> obj.val[k].val]

\* ------------------------------------------------ the snapshot and its views
\* C1: the text asJSON() returns, parsed as JSON, is the mapping toMap()
\* returns on the same snapshot: a JSON object with the same keys and values.
C1_JSONEqualsMap ==
  (pc = "api" /\ lastCall.view = "asJSON") =>
    LET parsed == JSONParse(lastCall.result)
    IN /\ parsed.kind = "object"
       /\ StringsOf(parsed) = toMap(lastCall.before).result

\* what a view returns on given entries
ResultOn(view, entries) ==
  IF view = "toMap" THEN toMap(entries).result
  ELSE IF view = "asJSON" THEN asJSON(entries).result
  ELSE IF view = "asCSV" THEN asCSV(entries).result
  ELSE asTSV(entries).result

\* C4: after any calls of the views the stored entries are those of the build,
\* and every call of a view returns what that view returns on the entries as
\* built, whatever views were called before it.
C4_ViewsPure ==
  pc = "api" =>
    /\ files = built
    /\ lastCall.view # "none" =>
         lastCall.result = ResultOn(lastCall.view, built)

CSVLines == Split(lastCall.result, "\n")

CSVShape ==
  /\ CSVLines[1] = CSVHeader
  /\ Len(CSVLines) = Len(lastCall.before) + 1
  /\ \A i \in 1..Len(lastCall.before) :
       CSVLines[i + 1] =
         WithCommasEscaped(lastCall.before[i][1]) \o <<",">> \o lastCall.before[i][2]

Recovered(i) ==
  LET d == DecodeCSVLine(CSVLines[i + 1])
  IN /\ d.ok
     /\ d.path = lastCall.before[i][1]
     /\ d.content = lastCall.before[i][2]

\* C5 as stated: asCSV() is the header line and one line escapedPath,content
\* per entry, and every body line decodes back to the path and the content.
C5_CSVRoundTrip ==
  (pc = "api" /\ lastCall.view = "asCSV") =>
    /\ CSVShape
    /\ \A i \in 1..Len(lastCall.before) : Recovered(i)

\* C5 amended: asCSV() is the header line and one line escapedPath,content per
\* entry, escapedPath being the entry's path as stored when asCSV() is called
\* with every comma replaced by backslash-comma; a body line decodes back to
\* that path and the content whenever the path does not end with a backslash.
C5_CSVRoundTripUnlessTrailingBackslash ==
  (pc = "api" /\ lastCall.view = "asCSV") =>
    /\ CSVShape
    /\ \A i \in 1..Len(lastCall.before) :
         LET path == lastCall.before[i][1]
         IN path[Len(path)] # "\\" => Recovered(i)

C5_Witness ==
  /\ pc = "api" /\ lastCall.view = "asCSV"
  /\ \E i \in 1..Len(lastCall.before) :
       LET path == lastCall.before[i][1]
       IN /\ \E j \in 1..Len(path) : path[j] = ","
          /\ path[Len(path)] # "\\"
          /\ Recovered(i)

\* C9: toMap() has one key per distinct path of the sequence and no other key,
\* the value of a key is the content of the last entry with that path, and
\* asCSV() and asTSV() have one body line per entry of the sequence.
C9_MapKeysAndRows ==
  pc = "api" =>
    LET before == lastCall.before
    IN /\ lastCall.view = "toMap" =>
            /\ DOMAIN lastCall.result = {before[i][1] : i \in 1..Len(before)}
            /\ \A i \in 1..Len(before) :
                 (\A j \in (i + 1)..Len(before) : before[j][1] # before[i][1])
                   => lastCall.result[before[i][1]] = before[i][2]
       /\ lastCall.view \in {"asCSV", "asTSV"} =>
            Len(Split(lastCall.result, "\n")) = Len(before) + 1

C9_Witness ==
  /\ pc = "api" /\ lastCall.view = "toMap"
  /\ \E i, j \in 1..Len(lastCall.before) :
       /\ i < j
       /\ lastCall.before[i][1] = lastCall.before[j][1]
       /\ lastCall.before[i][2] # lastCall.before[j][2]
       /\ lastCall.result[lastCall.before[i][1]] = lastCall.before[j][2]

\* --------------------------------------------------------- the backup command
\* the entries a complete snapshot holds: one per filtered path, in the order
\* of the enumeration, each with the content its own read returned
ExpectedEntries ==
  [i \in 1..Len(filtered) |-> <<filtered[i], fileReads[i].contents>>]

\* the rows a text holds, read back in the format of the run
RowsOf(text) ==
  IF format = "json"
  THEN LET v == JSONParse(text)
       IN [i \in 1..Len(v.val) |-> <<v.val[i].val[1].val, v.val[i].val[2].val>>]
  ELSE Tail(Split(text, "\n"))

RowsFor(entries) ==
  IF format = "json" THEN entries
  ELSE IF format = "csv"
  THEN [i \in 1..Len(entries) |->
          WithCommasEscaped(entries[i][1]) \o <<",">> \o entries[i][2]]
  ELSE [i \in 1..Len(entries) |-> entries[i][1] \o <<"\t">> \o entries[i][2]]

SomeReadRejected == \E i \in 1..Len(fileReads) : fileReads[i].status = "rejected"
AllReadsFulfilled == \A i \in 1..Len(fileReads) : fileReads[i].status = "fulfilled"
BuildSucceeded == pc = "write" \/ (pc = "exited" /\ cause.name \in {"none", "WriteError"})

\* C2 as stated: a run ends either with every step succeeded and the complete
\* output written, or with a failed step and the output file as it was before;
\* a rejected read keeps the run from the write step.
C2_AllOrNothing ==
  pc # "api" =>
    /\ pc # "exited" => outFile = outFile0
    /\ pc = "exited" =>
         \/ /\ exitCode = 0
            /\ cause = NoError
            /\ AllReadsFulfilled
            /\ outFile.exists
            /\ RowsOf(outFile.data) = RowsFor(ExpectedEntries)
         \/ /\ exitCode = 1
            /\ cause # NoError
            /\ outFile = outFile0
    /\ SomeReadRejected => (pc = "exited" /\ exitCode = 1 /\ outFile = outFile0)

IsProperPrefix(a, b) == Len(a) < Len(b) /\ a = SubSeq(b, 1, Len(a))

\* C2 amended: a run ends either with every step succeeded and the complete
\* output written, or with a failed step; when the enumeration or a read
\* failed the output file is as it was before, and when the write failed it is
\* as it was before or holds an incomplete prefix of the output.  A rejected
\* read keeps the run from the write step.
C2_AllOrNothingUnlessWriteFails ==
  pc # "api" =>
    /\ pc # "exited" => outFile = outFile0
    /\ pc = "exited" =>
         \/ /\ exitCode = 0
            /\ cause = NoError
            /\ AllReadsFulfilled
            /\ outFile.exists
            /\ RowsOf(outFile.data) = RowsFor(ExpectedEntries)
         \/ /\ exitCode = 1
            /\ cause.name \in {"UsageError", "GlobError", "ReadError"}
            /\ outFile = outFile0
         \/ /\ exitCode = 1
            /\ cause.name = "WriteError"
            /\ AllReadsFulfilled
            /\ \/ outFile = outFile0
               \/ outFile.exists /\ IsProperPrefix(outFile.data, content)
    /\ SomeReadRejected => (pc = "exited" /\ exitCode = 1 /\ outFile = outFile0)

C2_Witness ==
  /\ pc = "exited" /\ exitCode = 1
  /\ outFile = outFile0
  /\ SomeReadRejected
  /\ \E i \in 1..Len(fileReads) : fileReads[i].status = "fulfilled"

\* C3: when the build succeeds the entries of the snapshot, and the rows of
\* the formatted text, follow the order of the filtered enumeration, and each
\* entry holds the content read for its own path.
C3_EnumerationOrder ==
  BuildSucceeded =>
    /\ built = ExpectedEntries
    /\ \A i \in 1..Len(fileReads) : fileReads[i].filepath = filtered[i]
    /\ RowsOf(content) = RowsFor(ExpectedEntries)

C3_Witness ==
  /\ BuildSucceeded
  /\ \E i, j \in 1..Len(fileReads) :
       /\ i < j
       /\ fileReads[i].at > fileReads[j].at
       /\ fileReads[i].contents # fileReads[j].contents
       /\ built[i] = <<filtered[i], fileReads[i].contents>>

\* C6: a run ends with status 0 when every step succeeded and with status 1
\* when a step failed; a --format that is not json, csv or tsv ends the run
\* with status 1 and never leads to a write.
C6_ExitStatus ==
  pc # "api" =>
    /\ pc = "exited" =>
         /\ exitCode \in {0, 1}
         /\ exitCode = 0 <=> (cause = NoError /\ outFile.exists /\ outFile.data = content)
         /\ exitCode = 1 <=>
              cause.name \in {"UsageError", "GlobError", "ReadError", "WriteError"}
    /\ format \notin supportedFormats =>
         /\ pc \in {"start", "exited"}
         /\ outFile = outFile0
         /\ pc = "exited" => exitCode = 1

C6_Witness ==
  /\ pc = "exited"
  /\ format \notin supportedFormats
  /\ exitCode = 1
  /\ outFile = outFile0

\* C7: when the build fails, the error that comes out of Base64Filesystem is,
\* or wraps, the error the failing glob expansion or read raised.
C7_CausePreserved ==
  (pc = "exited" /\ cause.name \in {"GlobError", "ReadError"}) =>
    \/ err = cause
    \/ err.name = "Error" /\ err.msg = cause.name

\* C8 as stated: the driver resumes, to write or to report failure, only when
\* every issued read has settled.
C8_ResumesWhenAllSettled ==
  pc \in {"write", "exited"} =>
    \A i \in 1..Len(fileReads) : fileReads[i].status # "pending"

\* C8 amended: all reads are issued once the path list is known; the driver
\* goes on to serialize and write only when every issued read has completed,
\* and it reports failure and exits as soon as one read has failed, whether or
\* not other reads are still pending.
C8_ResumesWhenAllFulfilledOrOneRejected ==
  pc # "api" =>
    /\ pc \in {"reads", "write"} \/ cause.name \in {"ReadError", "WriteError"}
         => Len(fileReads) = Len(filtered)
    /\ BuildSucceeded => AllReadsFulfilled
    /\ pc = "reads" =>
         /\ ~SomeReadRejected
         /\ \E i \in 1..Len(fileReads) : fileReads[i].status = "pending"
    /\ (pc = "exited" /\ cause.name = "ReadError") =>
         Cardinality({i \in 1..Len(fileReads) : fileReads[i].status = "rejected"}) = 1

C8_Witness ==
  /\ pc = "write"
  /\ Len(fileReads) >= 2
  /\ AllReadsFulfilled

\* C10: the paths that are read and end up in the snapshot are the enumerated
\* paths every filter accepts, in the order of the enumeration; the order of
\* the filters does not matter and an empty list keeps every path.
C10_FiltersAreConjunction ==
  pc \in {"reads", "write"} \/ (pc = "exited" /\ cause.name \in {"none", "ReadError", "WriteError"}) =>
    LET AcceptedByAll(v) == \A k \in 1..Len(filters) : v \in filters[k]
        n == Len(filters)
        Orders == {f \in [1..n -> 1..n] : \A a, b \in 1..n : a # b => f[a] # f[b]}
    IN /\ filtered = SelectSeq(fileGlob, AcceptedByAll)
       /\ \A f \in Orders :
            ApplyFilters([k \in 1..n |-> filters[f[k]]], fileGlob) = filtered
       /\ n = 0 => filtered = fileGlob
       /\ [i \in 1..Len(fileReads) |-> fileReads[i].filepath] = filtered
       /\ BuildSucceeded => [i \in 1..Len(built) |-> built[i][1]] = filtered

C10_Witness ==
  /\ BuildSucceeded
  /\ Len(filters) = 2 /\ filters[1] # filters[2]
  /\ Len(fileGlob) = 2
  /\ \E i \in 1..2 : fileGlob[i] \notin filters[1]
  /\ Len(built) = 1
  /\ built[1][1] \in filters[1] \cap filters[2]

\* C11: in every successful build the N of `Found and encoded N file(s)` is
\* the number of entries of the snapshot that was just built, zero included.
C11_CountIsNumberOfEntries ==
  BuildSucceeded => foundCount = Len(built)

====
